---- MODULE Spec2Model ----
(***************************************************************************)
(* Schnorr proof of knowledge of a discrete logarithm (src/src/lib.rs),    *)
(* made non-interactive with Fiat-Shamir, and its hex wire encoding.       *)
(*                                                                         *)
(* The group is a scale model of secp256k1: the curve y^2 = x^3 + 7 over   *)
(* F_13, which has prime order 7 and cofactor 1.  A field element and a    *)
(* scalar each fill one byte (32 in the program), so a compressed point is *)
(* 2 bytes (33) and a scalar 1 byte (32).  As in the program, the scalar   *)
(* byte range (0..255) is larger than the group order, and the field byte  *)
(* range is larger than the field.                                         *)
(*                                                                         *)
(* SHA-256 is a lazily sampled oracle: the first query of a transcript     *)
(* draws its digest, later queries of the same transcript read it back.    *)
(***************************************************************************)
EXTENDS Integers, Sequences, FiniteSets, TLC

VARIABLES
    pc,        \* position of the caller: what has been called so far
    ctx,       \* [sid, pid] the caller proves under
    secret,    \* x, the caller's secret scalar (y = g^x)
    nonce,     \* r, the scalar generate_random_number returned to prove
    proof,     \* Result<DLogProof> of the latest prove call
    first,     \* [nonce, proof] of the prove call before the latest one
    oracle,    \* transcript bytes -> digest, for the transcripts hashed so far
    lastHash,  \* the latest hash_points call: [digest, res]
    vcall,     \* the arguments of the latest verify call: [sid, pid, y]
    verdict,   \* Result<bool> of the latest verify call
    verdict1,  \* Result<bool> of verify on the first of two proofs
    wire,      \* the serialized record {"t": hex, "s": hex} in transit
    tamper,    \* what was done to the record in transit
    decoded,   \* Result<DLogProof> of deserializing the record
    callA,     \* first recorded run of the hasher: [sid, pid, points, bytes]
    callB      \* second recorded run of the hasher

vars == <<pc, ctx, secret, nonce, proof, first, oracle, lastHash, vcall,
          verdict, verdict1, wire, tamper, decoded, callA, callB>>

---------------------------------------------------------------------------
(* The curve: k256::Secp256k1, scaled down.                                *)

FieldP == 13
CurveB == 7
GroupOrder == 7
\* Bytes of a scalar / of a digest, and of a compressed point.
ScalarLen == 1
PointLen == 2
\* pid.to_le_bytes() of a u64.
PidLen == 8

\* Digests the oracle draws from: 0..MaxDigest.  MaxDigest >= GroupOrder,
\* so some digest is not a canonical scalar.
MaxDigest == 7

Scalars == 0 .. (GroupOrder - 1)
Digests == { <<d>> : d \in 0 .. MaxDigest }

\* ProjectivePoint::IDENTITY.  (0, 0) is not on the curve.
IDENTITY == <<0, 0>>
\* ProjectivePoint::GENERATOR.
GENERATOR == <<11, 5>>

OnCurve(P) == (P[2] * P[2]) % FieldP = (P[1] * P[1] * P[1] + CurveB) % FieldP

CurvePoints ==
    {IDENTITY} \cup { P \in (0 .. FieldP - 1) \X (0 .. FieldP - 1) : OnCurve(P) }

FieldInv(a) == CHOOSE z \in 1 .. (FieldP - 1) : (a * z) % FieldP = 1

\* ProjectivePoint + ProjectivePoint
PointAdd(P, Q) ==
    IF P = IDENTITY THEN Q
    ELSE IF Q = IDENTITY THEN P
    ELSE IF P[1] = Q[1] /\ (P[2] + Q[2]) % FieldP = 0 THEN IDENTITY
    ELSE LET lam == IF P = Q
                    THEN (3 * P[1] * P[1] * FieldInv((2 * P[2]) % FieldP)) % FieldP
                    ELSE ((Q[2] - P[2] + FieldP)
                            * FieldInv((Q[1] - P[1] + FieldP) % FieldP)) % FieldP
             x3 == (lam * lam + 2 * FieldP - P[1] - Q[1]) % FieldP
             y3 == (lam * (P[1] + FieldP - x3) + FieldP - P[2]) % FieldP
         IN <<x3, y3>>

RECURSIVE Multiple(_, _)
\* P added to itself k times.
Multiple(P, k) == IF k = 0 THEN IDENTITY ELSE PointAdd(P, Multiple(P, k - 1))

\* The multiples of every curve point, computed once.
Multiples ==
    [P \in CurvePoints |-> [k \in 0 .. (GroupOrder - 1) |-> Multiple(P, k)]]

\* ProjectivePoint * Scalar
PointMul(P, k) == Multiples[P][k]

\* Scalar + Scalar, Scalar * Scalar
ScalarAdd(a, b) == (a + b) % GroupOrder
ScalarMul(a, b) == (a * b) % GroupOrder

---------------------------------------------------------------------------
(* Byte encodings of the curve library.                                    *)

Ok(v) == [tag |-> "Ok", val |-> v]
Err(m) == [tag |-> "Err", val |-> m]
Panic(m) == [tag |-> "Panic", val |-> m]
None == [tag |-> "None", val |-> "none"]

\* point.to_encoded_point(true).as_bytes(): SEC1, the identity is the one
\* byte 0x00, any other point is 0x02 / 0x03 (y even / odd) and then x.
to_encoded_point(P) ==
    IF P = IDENTITY THEN <<0>> ELSE <<2 + (P[2] % 2), P[1]>>

\* to_bytes without the zero fill: the identity comes out one byte long.
to_bytes_unpadded(P) == to_encoded_point(P)

\* GroupEncoding::to_bytes: the SEC1 bytes in a fixed-width, zero-filled array.
to_bytes(P) ==
    LET e == to_encoded_point(P)
    IN [i \in 1 .. PointLen |-> IF i <= Len(e) THEN e[i] ELSE 0]

\* GroupEncoding::from_bytes on a fixed-width array: a 0x02 / 0x03 tag
\* decompresses x (which must be a field element with a square x^3 + 7);
\* the all-zero array is the identity; everything else is no point.
from_bytes(b) ==
    IF b[1] \in {2, 3}
    THEN LET roots == { y \in 0 .. (FieldP - 1) :
                          /\ b[2] < FieldP
                          /\ OnCurve(<<b[2], y>>)
                          /\ y % 2 = b[1] - 2 }
         IN IF roots = {} THEN None
            ELSE Ok(<<b[2], CHOOSE y \in roots : TRUE>>)
    ELSE IF \A i \in 1 .. PointLen : b[i] = 0 THEN Ok(IDENTITY)
    ELSE None

\* Scalar::to_bytes: fixed-length big-endian.
scalar_to_bytes(s) == <<s>>

\* Scalar::from_repr: the big-endian value when it is below the group
\* order, and no scalar otherwise (no reduction).
from_repr(b) == IF b[1] < GroupOrder THEN Ok(b[1]) ELSE None

---------------------------------------------------------------------------
(* The hex crate.  A string is the sequence of its character codes.        *)

\* One lowercase hex digit of hex::encode.
HexChar(n) == IF n < 10 THEN 48 + n ELSE 87 + n

\* The value of a hex digit as hex::decode reads it ('0'-'9', 'a'-'f' and
\* 'A'-'F'), or -1 for any other character.
HexVal(c) ==
    IF c \in 48 .. 57 THEN c - 48
    ELSE IF c \in 97 .. 102 THEN c - 87
    ELSE IF c \in 65 .. 70 THEN c - 55
    ELSE -1

\* hex::encode
hex_encode(b) ==
    [i \in 1 .. (2 * Len(b)) |->
        IF i % 2 = 1 THEN HexChar(b[(i + 1) \div 2] \div 16)
        ELSE HexChar(b[i \div 2] % 16)]

\* hex::decode: FromHexError on an odd length or a character that is no
\* hex digit.
hex_decode(str) ==
    IF Len(str) % 2 = 1 THEN Err("OddLength")
    ELSE IF \E i \in 1 .. Len(str) : HexVal(str[i]) = -1
    THEN Err("InvalidHexCharacter")
    ELSE Ok([i \in 1 .. (Len(str) \div 2) |->
                16 * HexVal(str[2 * i - 1]) + HexVal(str[2 * i])])

---------------------------------------------------------------------------
(* Serialization of DLogProof {t, s}.                                      *)

serialize_projective_point(t) == hex_encode(to_bytes(t))

serialize_scalar(s) == hex_encode(scalar_to_bytes(s))

\* #[derive(Serialize)]: the record with the fields t and s.
serialize(p) ==
    [t |-> serialize_projective_point(p.t), s |-> serialize_scalar(p.s)]

\* A hex error is returned; GenericArray::clone_from_slice panics on a
\* slice of another length; unwrap() panics when from_bytes gives no point.
deserialize_projective_point(t_hex) ==
    LET t_bytes == hex_decode(t_hex)
    IN IF t_bytes.tag = "Err" THEN t_bytes
       ELSE IF Len(t_bytes.val) # PointLen
       THEN Panic("clone_from_slice")
       ELSE IF from_bytes(t_bytes.val).tag = "None" THEN Panic("unwrap")
       ELSE from_bytes(t_bytes.val)

\* A hex error is returned; clone_from_slice panics on a slice of another
\* length; a value that is no scalar is the error "Invalid scalar".
deserialize_scalar(s_hex) ==
    LET s_bytes == hex_decode(s_hex)
    IN IF s_bytes.tag = "Err" THEN s_bytes
       ELSE IF Len(s_bytes.val) # ScalarLen
       THEN Panic("clone_from_slice")
       ELSE IF from_repr(s_bytes.val).tag = "None" THEN Err("Invalid scalar")
       ELSE from_repr(s_bytes.val)

\* #[derive(Deserialize)]: t, then s (the order serialize writes them);
\* the first failure ends the call.
deserialize(rec) ==
    LET t == deserialize_projective_point(rec.t)
        s == deserialize_scalar(rec.s)
    IN IF t.tag # "Ok" THEN t
       ELSE IF s.tag # "Ok" THEN s
       ELSE Ok([t |-> t.val, s |-> s.val])

---------------------------------------------------------------------------
(* DLogProof::hash_points, prove, verify.                                  *)

RECURSIVE LittleEndian(_, _)
\* The k low bytes of n, the least significant first.
LittleEndian(n, k) ==
    IF k = 0 THEN <<>> ELSE <<n % 256>> \o LittleEndian(n \div 256, k - 1)

\* pid.to_le_bytes()
to_le_bytes(pid) == LittleEndian(pid, PidLen)

RECURSIVE EncodedPoints(_)
\* The fold over the points: each point's compressed bytes, in list order.
EncodedPoints(points) ==
    IF points = <<>> THEN <<>>
    ELSE to_encoded_point(Head(points)) \o EncodedPoints(Tail(points))

\* The transcript with the sid left out, and with the pid left out.
TranscriptWithoutSid(sid, pid, points) ==
    to_le_bytes(pid) \o EncodedPoints(points)
TranscriptWithoutPid(sid, pid, points) ==
    sid \o EncodedPoints(points)

\* What hash_points feeds the hasher: sid.as_bytes(), pid.to_le_bytes(),
\* then the points.
Transcript(sid, pid, points) ==
    sid \o to_le_bytes(pid) \o EncodedPoints(points)

\* hash_points, given the digest Sha256 finalizes to: the digest must be a
\* canonical scalar, else the error.
hash_points(digest) ==
    IF from_repr(digest).tag = "None"
    THEN Err("Failed to create scalar from hash")
    ELSE from_repr(digest)

\* prove with the hash failure unwrapped instead of returned.
prove_unwrap(x, r, digest) ==
    LET c == hash_points(digest)
    IN IF c.tag = "Err" THEN Panic("unwrap")
       ELSE Ok([t |-> PointMul(GENERATOR, r),
                s |-> ScalarAdd(r, ScalarMul(x, c.val))])

\* prove, given the nonce r and the digest of its transcript.
prove(x, r, digest) ==
    LET c == hash_points(digest)
    IN IF c.tag = "Err" THEN c
       ELSE Ok([t |-> PointMul(GENERATOR, r),
                s |-> ScalarAdd(r, ScalarMul(x, c.val))])

\* verify, given the digest of its transcript.
verify(p, y, digest) ==
    LET c == hash_points(digest)
    IN IF c.tag = "Err" THEN c
       ELSE Ok(PointMul(GENERATOR, p.s) = PointAdd(p.t, PointMul(y, c.val)))

\* The transcripts of prove and of verify: [g, y, t].
ProveTranscript(sid, pid, y, r) ==
    Transcript(sid, pid, <<GENERATOR, y, PointMul(GENERATOR, r)>>)
VerifyTranscript(p, sid, pid, y) ==
    Transcript(sid, pid, <<GENERATOR, y, p.t>>)

\* Sha256 of m may be d: m was not hashed before, or d is its digest.
Sha256Is(m, d) == m \in DOMAIN oracle => oracle[m] = d

---------------------------------------------------------------------------
(* The callers' inputs.                                                    *)

\* "sid" (the tests' session id) and "s".
Sids == { <<115, 105, 100>>, <<115>> }
Pids == { 1, 2 }
Contexts == [sid : Sids, pid : Pids]
\* let sid = "sid"; let pid = 1u64;
TestContext == [sid |-> <<115, 105, 100>>, pid |-> 1]

\* generate_random_number: Scalar::random, any scalar, zero included.
generate_random_number == Scalars

\* Inputs of the hasher runs that are compared with each other.
MaxSidLen == 1
MaxPid == 1
MaxPoints == 2
SeqsUpTo(S, n) == UNION { [1 .. k -> S] : k \in 0 .. n }
HashSids == SeqsUpTo({0, 1}, MaxSidLen)
HashPids == 0 .. MaxPid
HashPointLists == SeqsUpTo({IDENTITY, GENERATOR}, MaxPoints)

\* y = ProjectivePoint::GENERATOR * x
PublicPoint(x) == PointMul(GENERATOR, x)

---------------------------------------------------------------------------
(* Initial states.                                                         *)

InitWith(contexts) ==
    /\ pc = "init"
    /\ ctx \in contexts
    /\ secret = 0
    /\ nonce = 0
    /\ proof = None
    /\ first = None
    /\ oracle = <<>>
    /\ lastHash = [digest |-> <<>>, res |-> None]
    /\ vcall = None
    /\ verdict = None
    /\ verdict1 = None
    /\ wire = None
    /\ tamper = [kind |-> "unset", field |-> "none", at |-> 0, bit |-> 0]
    /\ decoded = None
    /\ callA = None
    /\ callB = None

Init == InitWith(Contexts)
InitTest == InitWith({TestContext})

---------------------------------------------------------------------------
(* Proving and verifying.                                                  *)

\* DLogProof::prove(sid, pid, x, y) with y = g^x.
Prove ==
    /\ pc = "init"
    /\ \E x \in Scalars, r \in generate_random_number, d \in Digests :
         LET m == ProveTranscript(ctx.sid, ctx.pid, PublicPoint(x), r)
         IN /\ Sha256Is(m, d)
            /\ oracle' = (m :> d) @@ oracle
            /\ secret' = x
            /\ nonce' = r
            /\ lastHash' = [digest |-> d, res |-> hash_points(d)]
            /\ proof' = prove(x, r, d)
    /\ pc' = "proved"
    /\ UNCHANGED <<ctx, first, vcall, verdict, verdict1, wire, tamper,
                   decoded, callA, callB>>

\* A second DLogProof::prove with the same (sid, pid, x, y).
ProveAgain ==
    /\ pc = "proved"
    /\ \E r \in generate_random_number, d \in Digests :
         LET m == ProveTranscript(ctx.sid, ctx.pid, PublicPoint(secret), r)
         IN /\ Sha256Is(m, d)
            /\ oracle' = (m :> d) @@ oracle
            /\ nonce' = r
            /\ lastHash' = [digest |-> d, res |-> hash_points(d)]
            /\ proof' = prove(secret, r, d)
    /\ first' = [nonce |-> nonce, proof |-> proof]
    /\ pc' = "proved2"
    /\ UNCHANGED <<ctx, secret, vcall, verdict, verdict1, wire, tamper,
                   decoded, callA, callB>>

\* proof.verify(sid2, pid2, y2) by a caller who holds the proof, for any
\* context and any public point y2 = g^x2.
Verify ==
    /\ pc = "proved"
    /\ proof.tag = "Ok"
    /\ \E sid2 \in Sids, pid2 \in Pids, x2 \in Scalars, d \in Digests :
         LET y2 == PublicPoint(x2)
             m == VerifyTranscript(proof.val, sid2, pid2, y2)
         IN /\ Sha256Is(m, d)
            /\ oracle' = (m :> d) @@ oracle
            /\ vcall' = [sid |-> sid2, pid |-> pid2, y |-> y2]
            /\ lastHash' = [digest |-> d, res |-> hash_points(d)]
            /\ verdict' = verify(proof.val, y2, d)
    /\ pc' = "verified"
    /\ UNCHANGED <<ctx, secret, nonce, proof, first, verdict1, wire, tamper,
                   decoded, callA, callB>>

\* verify(sid, pid, y) of p under the context and point it was made for.
VerifyOwn(p, d) ==
    /\ Sha256Is(VerifyTranscript(p, ctx.sid, ctx.pid, PublicPoint(secret)), d)
    /\ oracle' = (VerifyTranscript(p, ctx.sid, ctx.pid, PublicPoint(secret)) :> d)
                    @@ oracle
    /\ vcall' = [sid |-> ctx.sid, pid |-> ctx.pid, y |-> PublicPoint(secret)]
    /\ lastHash' = [digest |-> d, res |-> hash_points(d)]

\* The first of the two proofs, verified under its own context.
VerifyFirst ==
    /\ pc = "proved2"
    /\ first.proof.tag = "Ok"
    /\ verdict1.tag = "None"
    /\ \E d \in Digests :
         /\ VerifyOwn(first.proof.val, d)
         /\ verdict1' = verify(first.proof.val, PublicPoint(secret), d)
    /\ UNCHANGED <<pc, ctx, secret, nonce, proof, first, verdict, wire, tamper,
                   decoded, callA, callB>>

\* The second of the two proofs, verified under its own context.
VerifySecond ==
    /\ pc = "proved2"
    /\ proof.tag = "Ok"
    /\ verdict.tag = "None"
    /\ \E d \in Digests :
         /\ VerifyOwn(proof.val, d)
         /\ verdict' = verify(proof.val, PublicPoint(secret), d)
    /\ UNCHANGED <<pc, ctx, secret, nonce, proof, first, verdict1, wire, tamper,
                   decoded, callA, callB>>

---------------------------------------------------------------------------
(* The wire record: serialized, carried, deserialized, verified.           *)

\* serde_json::to_string(&dlog_proof)
Serialize ==
    /\ pc = "proved"
    /\ proof.tag = "Ok"
    /\ wire' = serialize(proof.val)
    /\ pc' = "serialized"
    /\ UNCHANGED <<ctx, secret, nonce, proof, first, oracle, lastHash, vcall,
                   verdict, verdict1, tamper, decoded, callA, callB>>

\* The record arrives as it was written.
Deliver ==
    /\ pc = "serialized"
    /\ tamper' = [kind |-> "none", field |-> "none", at |-> 0, bit |-> 0]
    /\ pc' = "received"
    /\ UNCHANGED <<ctx, secret, nonce, proof, first, oracle, lastHash, vcall,
                   verdict, verdict1, wire, decoded, callA, callB>>

\* c with bit b flipped.
FlipBitOf(c, b) ==
    IF (c \div (2 ^ b)) % 2 = 1 THEN c - 2 ^ b ELSE c + 2 ^ b

\* The record arrives with one bit of one character of t or s flipped.  (A
\* character code above 127 stands for a byte that is no character at all;
\* it is no hex digit either.)
FlipBit ==
    /\ pc = "serialized"
    /\ \E f \in {"t", "s"} :
         \E i \in 1 .. Len(wire[f]), b \in 0 .. 7 :
            /\ wire' = [wire EXCEPT ![f][i] = FlipBitOf(@, b)]
            /\ tamper' = [kind |-> "flip", field |-> f, at |-> i, bit |-> b]
    /\ pc' = "received"
    /\ UNCHANGED <<ctx, secret, nonce, proof, first, oracle, lastHash, vcall,
                   verdict, verdict1, decoded, callA, callB>>

\* The record arrives with t or s cut short by one or two characters.
Truncate ==
    /\ pc = "serialized"
    /\ \E f \in {"t", "s"}, n \in 1 .. 2 :
         /\ wire' = [wire EXCEPT ![f] = SubSeq(@, 1, Len(@) - n)]
         /\ tamper' = [kind |-> "truncate", field |-> f, at |-> n, bit |-> 0]
    /\ pc' = "received"
    /\ UNCHANGED <<ctx, secret, nonce, proof, first, oracle, lastHash, vcall,
                   verdict, verdict1, decoded, callA, callB>>

\* serde_json::from_str(&serialized)
Deserialize ==
    /\ pc = "received"
    /\ decoded' = deserialize(wire)
    /\ pc' = "decoded"
    /\ UNCHANGED <<ctx, secret, nonce, proof, first, oracle, lastHash, vcall,
                   verdict, verdict1, wire, tamper, callA, callB>>

\* The receiver verifies the proof it decoded, under the proving context.
VerifyDecoded ==
    /\ pc = "decoded"
    /\ decoded.tag = "Ok"
    /\ \E d \in Digests :
         /\ VerifyOwn(decoded.val, d)
         /\ verdict' = verify(decoded.val, PublicPoint(secret), d)
    /\ pc' = "verified"
    /\ UNCHANGED <<ctx, secret, nonce, proof, first, verdict1, wire, tamper,
                   decoded, callA, callB>>

---------------------------------------------------------------------------
(* The hasher's input, recorded for two runs of hash_points.               *)

HasherRun(sid, pid, points) ==
    [sid |-> sid, pid |-> pid, points |-> points,
     bytes |-> Transcript(sid, pid, points)]

FeedHasher ==
    /\ pc \in {"init", "fed1"}
    /\ \E sid \in HashSids, pid \in HashPids, points \in HashPointLists :
         IF pc = "init"
         THEN callA' = HasherRun(sid, pid, points) /\ callB' = callB
         ELSE callB' = HasherRun(sid, pid, points) /\ callA' = callA
    /\ pc' = IF pc = "init" THEN "fed1" ELSE "fed2"
    /\ UNCHANGED <<ctx, secret, nonce, proof, first, oracle, lastHash, vcall,
                   verdict, verdict1, wire, tamper, decoded>>

---------------------------------------------------------------------------
(* Specifications.                                                         *)

\* One proof, verified under any context against any public point.
Next == Prove \/ Verify
Spec == Init /\ [][Next]_vars

\* Two proofs of the same statement, each verified under its own context.
NextTwice == Prove \/ ProveAgain \/ VerifyFirst \/ VerifySecond
SpecTwice == InitTest /\ [][NextTwice]_vars

\* One proof sent over the wire and verified by the receiver.
NextWire ==
    Prove \/ Serialize \/ Deliver \/ FlipBit \/ Truncate \/ Deserialize
        \/ VerifyDecoded
SpecWire == InitTest /\ [][NextWire]_vars

\* Two runs of the hasher on arbitrary inputs.
NextHash == FeedHasher
SpecHash == InitTest /\ [][NextHash]_vars

---------------------------------------------------------------------------
(* Shorthands of the properties.                                           *)

Accepted(v) == v.tag = "Ok" /\ v.val = TRUE
Rejected(v) == v.tag = "Ok" /\ v.val = FALSE

\* The public point the proof was made for.
OwnPoint == PublicPoint(secret)

\* The latest verify call was made under the proving context.
OwnContext == vcall.sid = ctx.sid /\ vcall.pid = ctx.pid

\* The challenge prove computed for the latest proof.
ProveChallenge ==
    hash_points(oracle[ProveTranscript(ctx.sid, ctx.pid, OwnPoint, nonce)])

---------------------------------------------------------------------------
(* C1 - Completeness: for every secret x (x = 0 included), every sid, pid  *)
(* and nonce r (r = 0 included), prove(sid, pid, x, g^x) returns a proof,  *)
(* and verify(sid, pid, g^x) returns true for it.                          *)
C1_Completeness ==
    /\ pc \in {"proved", "verified"} => proof.tag = "Ok"
    /\ (pc = "verified" /\ OwnContext /\ vcall.y = OwnPoint)
          => Accepted(verdict)

(* The part of C1 that the code keeps: a proof that prove does return is   *)
(* accepted under its own context and public point.                        *)
ReturnedProofVerifies ==
    (pc = "verified" /\ OwnContext /\ vcall.y = OwnPoint) => Accepted(verdict)

(* C2 - hash_points is total: whatever digest the hash produces, digests   *)
(* at or above the group order included, hash_points returns a scalar and  *)
(* never an error.                                                         *)
C2_HashPointsTotal == lastHash.res.tag # "Err"

(* C3 - Decoding never aborts: malformed hex, a hex string of the wrong    *)
(* byte length for t or for s, t bytes that are no curve point and s bytes *)
(* outside the scalar range each make decode return an error value.        *)
BadField(str, len) ==
    \/ hex_decode(str).tag = "Err"
    \/ Len(hex_decode(str).val) # len
BadRecord(rec) ==
    \/ BadField(rec.t, PointLen)
    \/ BadField(rec.s, ScalarLen)
    \/ from_bytes(hex_decode(rec.t).val).tag = "None"
    \/ from_repr(hex_decode(rec.s).val).tag = "None"
C3_DecodeReturnsErrors ==
    pc = "decoded" =>
        /\ decoded.tag # "Panic"
        /\ BadRecord(wire) => decoded.tag = "Err"

(* C4 - Encoding round trip: for every proof (every t, the identity        *)
(* included, and every s), decoding its encoded form succeeds and yields   *)
(* the same t and s.                                                       *)
C4_RoundTrip ==
    (pc \in {"decoded", "verified"} /\ tamper.kind = "none") =>
        /\ decoded.tag = "Ok"
        /\ decoded.val.t = proof.val.t
        /\ decoded.val.s = proof.val.s

\* The record of a proof whose t is the identity (r = 0) was decoded.
C4_Witness ==
    /\ pc = "decoded"
    /\ tamper.kind = "none"
    /\ proof.val.t = IDENTITY
    /\ proof.val.s # 0
    /\ decoded.tag = "Ok"

(* C5 - Context binding, as claimed: a proof made under (sid1, pid1) for   *)
(* y = g^x is not accepted under (sid2, pid2) when sid1 # sid2 or          *)
(* pid1 # pid2, for every x and every nonce.  ("Rejected" is read as "not  *)
(* accepted", so that an error return does not count against the claim.)   *)
C5_ContextBinding ==
    (pc = "verified" /\ vcall.y = OwnPoint /\ ~OwnContext)
        => ~Accepted(verdict)

(* C5, amended: under another context the verifier hashes another          *)
(* transcript, and verify returns true exactly when x = 0 or the two       *)
(* transcripts hash to the same challenge; otherwise it returns false, or  *)
(* the error when the digest is no canonical scalar.                       *)
C5_ContextBindingAmended ==
    (pc = "verified" /\ vcall.y = OwnPoint /\ ~OwnContext) =>
        /\ VerifyTranscript(proof.val, vcall.sid, vcall.pid, vcall.y)
             # ProveTranscript(ctx.sid, ctx.pid, OwnPoint, nonce)
        /\ Accepted(verdict) <=>
             /\ lastHash.res.tag = "Ok"
             /\ secret = 0 \/ lastHash.res.val = ProveChallenge.val
        /\ ~Accepted(verdict) =>
             IF lastHash.res.tag = "Ok" THEN Rejected(verdict)
             ELSE verdict.tag = "Err"

\* A proof for x # 0 was rejected under another context.
C5_Witness ==
    /\ pc = "verified"
    /\ vcall.y = OwnPoint
    /\ ~OwnContext
    /\ secret # 0
    /\ Rejected(verdict)

(* C6's exact content in the model: against the public point of another    *)
(* secret x2, verify returns true only if x * c = x2 * c2 for the prover's *)
(* challenge c and the verifier's c2.                                      *)
OtherPointAcceptedOnlyByCoincidence ==
    (pc = "verified" /\ OwnContext /\ vcall.y # OwnPoint /\ Accepted(verdict))
        => \E x2 \in Scalars :
              /\ vcall.y = PublicPoint(x2)
              /\ ScalarMul(secret, ProveChallenge.val)
                   = ScalarMul(x2, lastHash.res.val)

(* C7 - Tamper sensitivity: after any single bit of the encoded t or s of  *)
(* an accepted proof is flipped, decode fails or verify does not accept    *)
(* the decoded proof.                                                      *)
C7_TamperSensitive ==
    (pc = "verified" /\ tamper.kind = "flip") => ~Accepted(verdict)

(* The part of C7 about s: a decoded proof that differs from the accepted  *)
(* one only in s is never accepted.                                        *)
OtherResponseNeverAccepted ==
    (pc = "verified" /\ decoded.val.t = proof.val.t
        /\ decoded.val.s # proof.val.s) => ~Accepted(verdict)

(* C8 - Two calls of prove with the same (sid, pid, x, y) and different    *)
(* nonces return different (t, s) pairs, and verify accepts both.          *)
C8_FreshProofs ==
    (pc = "proved2" /\ first.nonce # nonce) =>
        /\ first.proof.tag = "Ok"
        /\ proof.tag = "Ok"
        /\ first.proof.val # proof.val
        /\ verdict1.tag # "None" => Accepted(verdict1)
        /\ verdict.tag # "None" => Accepted(verdict)

(* The part of C8 that the code keeps: the proofs that prove does return   *)
(* differ in t and are both accepted.                                      *)
ReturnedProofsDifferAndVerify ==
    (pc = "proved2" /\ first.nonce # nonce) =>
        /\ (first.proof.tag = "Ok" /\ proof.tag = "Ok")
              => first.proof.val.t # proof.val.t
        /\ verdict1.tag # "None" => Accepted(verdict1)
        /\ verdict.tag # "None" => Accepted(verdict)

(* C9 - Transcript domain separation, as claimed: any two runs of          *)
(* hash_points whose inputs differ feed different bytes to the hash.       *)
C9_TranscriptInjective ==
    (pc = "fed2" /\ <<callA.sid, callA.pid, callA.points>>
                      # <<callB.sid, callB.pid, callB.points>>)
        => callA.bytes # callB.bytes

\* The number of inputs (sid, pid, points) in which the two runs differ.
Differences ==
    (IF callA.sid # callB.sid THEN 1 ELSE 0)
      + (IF callA.pid # callB.pid THEN 1 ELSE 0)
      + (IF callA.points # callB.points THEN 1 ELSE 0)

(* C9, amended: two runs that differ in exactly one of sid, pid and the    *)
(* point list (another sid, another pid, a point added, omitted, replaced  *)
(* or two points swapped) feed different bytes to the hash.                *)
C9_TranscriptSeparatesOneChange ==
    (pc = "fed2" /\ Differences = 1) => callA.bytes # callB.bytes

\* Two runs whose point lists are the same two points in the other order.
C9_Witness ==
    /\ pc = "fed2"
    /\ Differences = 1
    /\ callA.points = <<IDENTITY, GENERATOR>>
    /\ callB.points = <<GENERATOR, IDENTITY>>

(* C10 - No partial success: when hash_points fails, prove returns an      *)
(* error and no proof, verify returns an error and no boolean, and neither *)
(* aborts; verify returns false only when the challenge was computed and   *)
(* g^s # t + y^c.                                                          *)
C10_NoPartialSuccess ==
    /\ (pc = "proved" /\ lastHash.res.tag = "Err") => proof.tag = "Err"
    /\ (pc = "verified" /\ lastHash.res.tag = "Err") => verdict.tag = "Err"
    /\ proof.tag # "Panic" /\ verdict.tag # "Panic"
    /\ (pc = "verified" /\ Rejected(verdict)) =>
          /\ lastHash.res.tag = "Ok"
          /\ PointMul(GENERATOR, proof.val.s)
               # PointAdd(proof.val.t, PointMul(vcall.y, lastHash.res.val))

\* verify's own hash_points call failed, after prove's had succeeded.
C10_Witness ==
    /\ pc = "verified"
    /\ lastHash.res.tag = "Err"
    /\ verdict.tag = "Err"

====
